---- MODULE Spec2Model ----
(***************************************************************************)
(* Pedigree merge-and-score engine: identity canonicalisation, the graph   *)
(* merger, the ancestry projector and the influence scorer, modelled from  *)
(* src/src/pedigree_graph.py, src/src/pedigree_parser.py,                  *)
(* src/src/pedigree_projection.py, src/src/pedigree_summary.py and         *)
(* src/src/pedigree_scoring.py.                                            *)
(*                                                                         *)
(* Python values are tagged records: PyInt(n), PyStr(s), PyNone, PyOther.  *)
(* A Python str is a sequence of one-character strings; the character      *)
(* U+2013 (en dash) is written "EN".                                       *)
(***************************************************************************)
EXTENDS Integers, Sequences, FiniteSets

VARIABLES
    tokA, tokB, resA, resB,            \* identity canonicaliser: two inputs, two results
    pedigrees, pi, ni, graph, mpc,     \* merger: loaded fragments, loop position, merged graph
    after_first,                       \* merger: the graph as it was when the first fragment ended
    tgraph, troot, tdepth, tout, tpc,  \* traversals: input graph, root, max_depth, result
    snapshot, source_mtime, loaded,    \* graph store: the snapshot file, newest fragment mtime, last load
    sheet, call                        \* scores sheet: its data rows, and the last call with the rows before it

vars == <<tokA, tokB, resA, resB, pedigrees, pi, ni, graph, mpc, after_first,
          tgraph, troot, tdepth, tout, tpc,
          snapshot, source_mtime, loaded, sheet, call>>

canonVars == <<tokA, tokB, resA, resB>>
mergeVars == <<pedigrees, pi, ni, graph, mpc, after_first>>
travVars  == <<tgraph, troot, tdepth, tout, tpc>>
storeVars == <<snapshot, source_mtime, loaded>>
sheetVars == <<sheet, call>>

(***************************************************************************)
(* Python values                                                           *)
(***************************************************************************)
PyInt(n) == [t |-> "int", v |-> n]
PyStr(s) == [t |-> "str", v |-> s]
PyNone   == [t |-> "none", v |-> 0]
PyOther  == [t |-> "other", v |-> 0]

IsInt(x)  == x.t = "int"
IsStr(x)  == x.t = "str"
IsNone(x) == x.t = "none"

Idle == "idle"

(***************************************************************************)
(* str methods, over the characters the model uses                         *)
(***************************************************************************)
LowerCase == <<"a","b","c","d","e","f","g","h","i","j","k","l","m",
               "n","o","p","q","r","s","t","u","v","w","x","y","z">>
UpperCase == <<"A","B","C","D","E","F","G","H","I","J","K","L","M",
               "N","O","P","Q","R","S","T","U","V","W","X","Y","Z">>
Digits    == <<"0","1","2","3","4","5","6","7","8","9">>
HexDigits == <<"0","1","2","3","4","5","6","7","8","9","a","b","c","d","e","f">>

IndexOf(c, alphabet) ==
    IF \E i \in 1..Len(alphabet) : alphabet[i] = c
    THEN CHOOSE i \in 1..Len(alphabet) : alphabet[i] = c
    ELSE 0

UpperChar(c) == IF IndexOf(c, LowerCase) > 0 THEN UpperCase[IndexOf(c, LowerCase)] ELSE c
LowerChar(c) == IF IndexOf(c, UpperCase) > 0 THEN LowerCase[IndexOf(c, UpperCase)] ELSE c

Upper(s) == [i \in 1..Len(s) |-> UpperChar(s[i])]
Lower(s) == [i \in 1..Len(s) |-> LowerChar(s[i])]

IsSpace(c) == c = " "

RECURSIVE LStrip(_)
LStrip(s) == IF Len(s) > 0 /\ IsSpace(s[1]) THEN LStrip(Tail(s)) ELSE s

RECURSIVE RStrip(_)
RStrip(s) == IF Len(s) > 0 /\ IsSpace(s[Len(s)]) THEN RStrip(SubSeq(s, 1, Len(s) - 1)) ELSE s

Strip(s) == RStrip(LStrip(s))

\* characters that str.isdigit accepts and int() rejects: the superscript
\* two (U+00B2), written here as one character
OtherDigits == <<"SUP2">>

\* str.isdigit
IsDigit(s) ==
    /\ Len(s) > 0
    /\ \A i \in 1..Len(s) : IndexOf(s[i], Digits) > 0 \/ IndexOf(s[i], OtherDigits) > 0

\* the strings int() accepts among those str.isdigit accepts
IsDecimal(s) == Len(s) > 0 /\ \A i \in 1..Len(s) : IndexOf(s[i], Digits) > 0

\* int(s) for a string of decimal digits
RECURSIVE IntOfDigits(_)
IntOfDigits(s) ==
    IF Len(s) = 0 THEN 0
    ELSE 10 * IntOfDigits(SubSeq(s, 1, Len(s) - 1)) + (IndexOf(s[Len(s)], Digits) - 1)

StartsWith(s, p) == Len(s) >= Len(p) /\ SubSeq(s, 1, Len(p)) = p

(***************************************************************************)
(* Curated identities                                                      *)
(***************************************************************************)
KAPRELL_ID    == -275
KAPRELL_REGNO == <<"T", "-", "2", "7", "5">>
KAPRELL_NAME  == <<"K", "A", "P", "R", "E", "L", "L">>

CuratedMax   == 1000000
SyntheticMod == 2000000000

(***************************************************************************)
(* _synthetic_id: md5 of the stripped token, first 16 hex digits, read as  *)
(* an integer, reduced modulo 2,000,000,000.                               *)
(***************************************************************************)

\* hashlib.md5(s.encode("utf-8")).hexdigest()[:16] for the tokens of the model
\* (the digests are md5's; the trailing comment is the resulting synthetic ID)
Md5Hex16(s) ==
    CASE s = <<"T", "-", "2", "7", "5">>
         -> <<"3", "c", "b", "b", "6", "3", "3", "4", "5", "5", "c", "3", "3", "e", "8", "b">>  \* -1348876940
      [] s = <<"t", "-", "2", "7", "5">>
         -> <<"7", "c", "c", "2", "9", "f", "8", "1", "a", "6", "b", "c", "0", "0", "7", "3">>  \* -1381867636
      [] s = <<"T", "EN", "2", "7", "5">>
         -> <<"4", "4", "e", "3", "6", "4", "1", "b", "f", "a", "c", "8", "b", "2", "8", "3">>  \* -1626770052
      [] s = <<"T", " ", "EN", " ", "2", "7", "5">>
         -> <<"e", "6", "b", "e", "1", "a", "9", "e", "7", "1", "5", "3", "1", "0", "c", "9">>  \* -106874058
      [] s = <<"T", " ", "-", " ", "2", "7", "5">>
         -> <<"5", "3", "e", "e", "b", "e", "4", "f", "6", "5", "3", "a", "4", "a", "f", "a">>  \* -1815167739
      [] s = <<"N", "K", "-", "9", "7">>
         -> <<"9", "f", "6", "6", "d", "1", "0", "1", "4", "d", "5", "9", "5", "e", "3", "a">>  \* -1177903675
      [] s = <<"N", "K", "EN", "9", "7">>
         -> <<"2", "9", "4", "8", "8", "6", "9", "a", "e", "1", "e", "1", "0", "3", "1", "e">>  \* -1650918175
      [] s = <<"N", "K", " ", "-", " ", "9", "7">>
         -> <<"e", "8", "9", "b", "5", "a", "8", "6", "3", "5", "5", "3", "0", "2", "f", "8">>  \* -656183033
      [] s = <<"T", "-", "1", "5", "4", "8">>
         -> <<"2", "5", "d", "2", "f", "3", "5", "b", "c", "5", "e", "f", "e", "b", "4", "d">>  \* -979790
      [] s = <<"u", "n", "k", "n", "o", "w", "n">>
         -> <<"a", "d", "9", "2", "1", "d", "6", "0", "4", "8", "6", "3", "6", "6", "2", "5">>  \* -529828390
      [] s = <<"?">>
         -> <<"d", "1", "4", "5", "7", "b", "7", "2", "c", "3", "f", "b", "3", "2", "3", "a">>  \* -164481595
      [] s = <<"-", "5">>
         -> <<"4", "7", "c", "1", "b", "0", "2", "5", "f", "a", "1", "8", "e", "a", "9", "6">>  \* -354255511
      [] s = <<"H">>
         -> <<"c", "1", "d", "9", "f", "5", "0", "f", "8", "6", "8", "2", "5", "a", "1", "a">>  \* -296308251
      [] s = <<"S">>
         -> <<"5", "d", "b", "c", "9", "8", "d", "c", "c", "9", "8", "3", "a", "7", "0", "7">>  \* -1189976840
      [] s = <<"X">>
         -> <<"0", "2", "1", "2", "9", "b", "b", "8", "6", "1", "0", "6", "1", "d", "1", "a">>  \* -1860726043
      [] s = <<"Y">>
         -> <<"5", "7", "c", "e", "c", "4", "1", "3", "7", "b", "6", "1", "4", "c", "8", "7">>  \* -455522440
      [] s = <<"K", "A", "P", "R", "E", "L", "L">>
         -> <<"a", "3", "7", "c", "9", "e", "7", "6", "a", "8", "7", "d", "9", "4", "9", "d">>  \* -1764506782
      [] s = <<"n", "o", "n", "e">>
         -> <<"3", "3", "4", "c", "4", "a", "4", "c", "4", "2", "f", "d", "b", "7", "9", "d">>  \* -1566228382

\* (a + b) % SyntheticMod for 0 <= a, b < SyntheticMod, within 32-bit integers
AddMod(a, b) == IF a >= SyntheticMod - b THEN a - (SyntheticMod - b) ELSE a + b

Times16Mod(a) ==
    LET d1 == AddMod(a, a)
        d2 == AddMod(d1, d1)
        d3 == AddMod(d2, d2)
    IN  AddMod(d3, d3)

\* int(h, 16) % 2_000_000_000, digit by digit
RECURSIVE IntHexMod(_)
IntHexMod(h) ==
    IF Len(h) = 0 THEN 0
    ELSE LET r == IntHexMod(SubSeq(h, 1, Len(h) - 1))
             d == IndexOf(h[Len(h)], HexDigits) - 1
         IN  IF r = 0 THEN d ELSE AddMod(Times16Mod(r), d)

_synthetic_id(token) == -(IntHexMod(Md5Hex16(Strip(token))) + 1)

(***************************************************************************)
(* _canon_id: (canonical id | None, external token | None)                 *)
(***************************************************************************)
CanonResult(id, ext) == [id |-> id, ext |-> ext]

\* int(s) raises ValueError: the call returns no pair
ValueError == CanonResult(PyOther, PyOther)

_canon_id(v) ==
    IF IsInt(v) THEN CanonResult(v, PyNone)
    ELSE IF IsStr(v) THEN
        LET s == Strip(v.v) IN
        IF Len(s) = 0 THEN CanonResult(PyNone, PyNone)
        ELSE IF IsDigit(s)
             THEN (IF IsDecimal(s) THEN CanonResult(PyInt(IntOfDigits(s)), PyNone)
                   ELSE ValueError)
        ELSE IF Upper(s) = KAPRELL_REGNO THEN CanonResult(PyInt(KAPRELL_ID), PyStr(s))
        ELSE CanonResult(PyInt(_synthetic_id(s)), PyStr(s))
    ELSE CanonResult(PyNone, PyNone)

_is_curated_negative_id(v) == IsInt(v) /\ v.v < 0 /\ -(v.v) <= CuratedMax

(***************************************************************************)
(* pedigree_parser: registration-number normalisation                      *)
(***************************************************************************)
\* _HYPHEN_LIKE, as far as the model's characters go
HyphenLike == {"EN"}

\* re.sub(r"\s*-\s*", "-", s): drop the spaces on either side of each "-"
RECURSIVE CollapseDashSpacing(_)
CollapseDashSpacing(s) ==
    IF Len(s) = 0 THEN s
    ELSE IF s[1] = "-" THEN <<"-">> \o CollapseDashSpacing(LStrip(Tail(s)))
    ELSE IF IsSpace(s[1]) /\ Len(LStrip(s)) > 0 /\ LStrip(s)[1] = "-"
         THEN CollapseDashSpacing(LStrip(s))
    ELSE <<s[1]>> \o CollapseDashSpacing(Tail(s))

_normalize_regno_text(reg_no) ==
    LET s == Strip(reg_no)
        r == [i \in 1..Len(s) |-> IF s[i] \in HyphenLike THEN "-" ELSE s[i]]
    IN  CollapseDashSpacing(r)

(***************************************************************************)
(* Identity canonicaliser as a state machine: two tokens are drawn, each   *)
(* is canonicalised by _canon_id.                                          *)
(***************************************************************************)
Tok_T275        == <<"T", "-", "2", "7", "5">>
Tok_t275        == <<"t", "-", "2", "7", "5">>
Tok_T275_padded == <<" ", "T", "-", "2", "7", "5", " ">>
Tok_T275_en     == <<"T", "EN", "2", "7", "5">>
Tok_T275_en_sp  == <<"T", " ", "EN", " ", "2", "7", "5">>
Tok_T275_sp     == <<"T", " ", "-", " ", "2", "7", "5">>
Tok_NK97        == <<"N", "K", "-", "9", "7">>
Tok_NK97_en     == <<"N", "K", "EN", "9", "7">>
Tok_NK97_sp     == <<"N", "K", " ", "-", " ", "9", "7">>
Tok_T1548       == <<"T", "-", "1", "5", "4", "8">>
Tok_unknown     == <<"u", "n", "k", "n", "o", "w", "n">>
Tok_qmark       == <<"?">>
Tok_minus5      == <<"-", "5">>
Tok_275         == <<"2", "7", "5">>
Tok_42_padded   == <<" ", "4", "2", " ">>
Tok_007         == <<"0", "0", "7">>
Tok_empty       == << >>
Tok_blank       == <<" ", " ">>
Tok_sup2        == <<"SUP2">>

CanonStrings ==
    { Tok_T275, Tok_t275, Tok_T275_padded, Tok_T275_en, Tok_T275_en_sp, Tok_T275_sp,
      Tok_NK97, Tok_NK97_en, Tok_NK97_sp, Tok_T1548, Tok_unknown, Tok_qmark,
      Tok_minus5, Tok_275, Tok_42_padded, Tok_007, Tok_empty, Tok_blank, Tok_sup2 }

CanonInputs ==
    {PyStr(s) : s \in CanonStrings}
    \cup {PyInt(n) : n \in {0, 7, 275, 81414, -275, -5, -1000001}}
    \cup {PyNone, PyOther}

NotRun == [done |-> FALSE, val |-> CanonResult(PyNone, PyNone)]
Ran(r) == [done |-> TRUE, val |-> r]

CanonIdle ==
    /\ tokA = PyNone /\ tokB = PyNone
    /\ resA = NotRun /\ resB = NotRun

CanonFirst ==
    /\ ~resA.done
    /\ resA' = Ran(_canon_id(tokA))
    /\ UNCHANGED <<tokA, tokB, resB>>
    /\ UNCHANGED <<mergeVars, travVars, storeVars, sheetVars>>

CanonSecond ==
    /\ ~resB.done
    /\ resB' = Ran(_canon_id(tokB))
    /\ UNCHANGED <<tokA, tokB, resA>>
    /\ UNCHANGED <<mergeVars, travVars, storeVars, sheetVars>>

(***************************************************************************)
(* Graph merger (build_merged_pedigree_graph).  A raw record and a graph   *)
(* node are records over the same field names; a key the Python dict does  *)
(* not have reads as PyNone, which is what dict.get returns for it.        *)
(***************************************************************************)
BlankNode ==
    [ horse_id |-> PyNone, registration_number |-> PyNone,
      father_id |-> PyNone, mother_id |-> PyNone,
      father_registration_number |-> PyNone, father_name |-> PyNone,
      mother_registration_number |-> PyNone,
      sex |-> PyNone, birth_year |-> PyNone, name |-> PyNone,
      external_id |-> PyNone, father_external_id |-> PyNone,
      mother_external_id |-> PyNone ]

EmptyGraph == [k \in {} |-> BlankNode]

GraphPut(g, k, node) == [x \in (DOMAIN g) \cup {k} |-> IF x = k THEN node ELSE g[x]]

_node_id_source(node) ==
    IF ~IsNone(node.horse_id) THEN node.horse_id
    ELSE IF IsStr(node.registration_number) /\ Len(Strip(node.registration_number.v)) > 0
         THEN PyStr(Strip(node.registration_number.v))
         ELSE PyNone

MissingMarkers ==
    { << >>, <<"u","n","k","n","o","w","n">>, <<"n","o","n","e">>, <<"n","u","l","l">>, <<"?">> }

_is_missing(v) ==
    \/ IsNone(v)
    \/ (IsStr(v) /\ Lower(Strip(v.v)) \in MissingMarkers)

_looks_like_kaprell_context(node) ==
    \/ (IsStr(node.father_registration_number)
            /\ Upper(Strip(node.father_registration_number.v)) = KAPRELL_REGNO)
    \/ (IsStr(node.father_name)
            /\ StartsWith(Upper(Strip(node.father_name.v)), KAPRELL_NAME))

\* lines 194-211: the canonical ID is new to the graph
NewNodeNoExternals(node, hid, hid_external, father, mother) ==
    [node EXCEPT !.horse_id = PyInt(hid),
                 !.father_id = father.id,
                 !.mother_id = mother.id]

NewNode(node, hid, hid_external, father, mother) ==
    [node EXCEPT !.horse_id = PyInt(hid),
                 !.father_id = father.id,
                 !.mother_id = mother.id,
                 !.external_id = IF ~IsNone(hid_external) THEN hid_external ELSE @,
                 !.father_external_id = IF ~IsNone(father.ext) THEN father.ext ELSE @,
                 !.mother_external_id = IF ~IsNone(mother.ext) THEN mother.ext ELSE @]

\* lines 221-235: the father reference of an existing node
MergeFatherFirstWriterWins(existing_father, father_id, node) ==
    IF ~IsNone(father_id) /\ _is_missing(existing_father) THEN father_id ELSE existing_father

MergeFather(existing_father, father_id, node) ==
    IF IsNone(father_id) THEN existing_father
    ELSE IF _is_missing(existing_father) THEN father_id
    ELSE IF /\ IsInt(existing_father)
            /\ existing_father # father_id
            /\ \/ father_id = PyInt(KAPRELL_ID)
               \/ _looks_like_kaprell_context(node)
               \/ _is_curated_negative_id(father_id)
         THEN father_id
         ELSE existing_father

\* lines 237-247: the mother reference of an existing node
MergeMother(existing_mother, mother_id) ==
    IF IsNone(mother_id) THEN existing_mother
    ELSE IF _is_missing(existing_mother) THEN mother_id
    ELSE IF /\ IsInt(existing_mother)
            /\ existing_mother # mother_id
            /\ _is_curated_negative_id(mother_id)
         THEN mother_id
         ELSE existing_mother

\* lines 218-219, 249-252: an external token fills a missing one
FillExternal(existing_external, external) ==
    IF ~IsNone(external) /\ _is_missing(existing_external) THEN external ELSE existing_external

\* lines 254-268: sex, birth_year, name, registration_number
FillAlwaysIncoming(existing_value, incoming) == incoming

FillIfMissing(existing_value, incoming) ==
    IF _is_missing(existing_value) /\ ~_is_missing(incoming) THEN incoming ELSE existing_value

\* lines 213-268: the canonical ID is already in the graph
Enrich(existing, node, hid, hid_external, father, mother) ==
    [existing EXCEPT
        !.horse_id = PyInt(hid),
        !.external_id = FillExternal(@, hid_external),
        !.father_id = MergeFather(@, father.id, node),
        !.mother_id = MergeMother(@, mother.id),
        !.father_external_id = FillExternal(@, father.ext),
        !.mother_external_id = FillExternal(@, mother.ext),
        !.sex = FillIfMissing(@, node.sex),
        !.birth_year = FillIfMissing(@, node.birth_year),
        !.name = FillIfMissing(@, node.name),
        !.registration_number = FillIfMissing(@, node.registration_number)]

\* lines 185-268: the body of the loop, for one record
MergeRecord(g, node) ==
    LET own == _canon_id(_node_id_source(node)) IN
    IF IsNone(own.id) THEN g
    ELSE LET hid    == own.id.v
             father == _canon_id(node.father_id)
             mother == _canon_id(node.mother_id)
         IN  IF hid \notin DOMAIN g
             THEN GraphPut(g, hid, NewNode(node, hid, own.ext, father, mother))
             ELSE GraphPut(g, hid, Enrich(g[hid], node, hid, own.ext, father, mother))

(***************************************************************************)
(* The records the cache files of the model hold.  Every record is one a   *)
(* flattened pedigree can contain: horse 1 with one group of fields set.   *)
(***************************************************************************)
MaxRecords == 3

Rec(hid) == [BlankNode EXCEPT !.horse_id = hid]

RecFather500      == [Rec(PyInt(1)) EXCEPT !.father_id = PyInt(500)]
RecFather600      == [Rec(PyInt(1)) EXCEPT !.father_id = PyInt(600)]
RecFather600Label == [Rec(PyInt(1)) EXCEPT !.father_id = PyInt(600),
                                           !.father_registration_number = PyStr(Tok_t275)]
RecFatherKaprell  == [Rec(PyInt(1)) EXCEPT !.father_id = PyInt(KAPRELL_ID),
                                           !.father_registration_number = PyStr(Tok_T275)]
RecFatherT275     == [Rec(PyInt(1)) EXCEPT !.father_id = PyStr(Tok_T275_padded)]
RecFatherNK97     == [Rec(PyInt(1)) EXCEPT !.father_id = PyStr(Tok_NK97)]
RecMother700      == [Rec(PyInt(1)) EXCEPT !.mother_id = PyInt(700)]
RecMother800      == [Rec(PyInt(1)) EXCEPT !.mother_id = PyStr(<<"8", "0", "0">>)]
RecMotherCurated  == [Rec(PyInt(1)) EXCEPT !.mother_id = PyInt(-5)]
RecUnknowns       == [Rec(PyInt(1)) EXCEPT !.sex = PyStr(Tok_unknown), !.name = PyStr(Tok_qmark)]
RecAttrsH         == [Rec(PyInt(1)) EXCEPT !.sex = PyStr(<<"H">>), !.name = PyStr(<<"X">>),
                                           !.birth_year = PyInt(1955),
                                           !.registration_number = PyStr(Tok_NK97)]
RecAttrsS         == [Rec(PyInt(1)) EXCEPT !.sex = PyStr(<<"S">>), !.name = PyStr(<<"Y">>)]
RecByRegno        == [Rec(PyNone) EXCEPT !.registration_number = PyStr(Tok_T275),
                                         !.father_id = PyInt(500)]

Records ==
    { RecFather500, RecFather600, RecFather600Label, RecFatherKaprell, RecFatherT275,
      RecFatherNK97, RecMother700, RecMother800, RecMotherCurated, RecUnknowns,
      RecAttrsH, RecAttrsS, RecByRegno }

Fragments == UNION { [1..k -> Records] : k \in 1..MaxRecords }

(***************************************************************************)
(* The merge as a state machine: load_all_cached_pedigrees has returned    *)
(* `pedigrees` (one cached fragment, or the same fragment cached twice);   *)
(* the loop merges pedigrees[pi][ni].                                      *)
(***************************************************************************)
MergeIdle ==
    /\ pedigrees = << >> /\ pi = 0 /\ ni = 0
    /\ graph = EmptyGraph /\ mpc = Idle /\ after_first = EmptyGraph

MergeInit ==
    /\ \E frag \in Fragments : pedigrees \in { <<frag>>, <<frag, frag>> }
    /\ pi = 1 /\ ni = 1
    /\ graph = EmptyGraph
    /\ after_first = EmptyGraph
    /\ mpc = "merging"

\* an element of a cached list that is not a dict (a string, a number, null)
NotADict == PyOther

IsDict(node) == "horse_id" \in DOMAIN node

\* cached fragments as json.load returns them: load_all_cached_pedigrees
\* takes any list, whatever its elements
\* a record whose horse_id is an empty string and whose registration
\* number is a code
RecBlankIdRegno   == [Rec(PyStr(Tok_empty)) EXCEPT !.registration_number = PyStr(Tok_T1548)]

\* a record that labels its mother with the curated registration code
RecMother800Label == [Rec(PyInt(1)) EXCEPT !.mother_id = PyInt(800),
                                           !.mother_registration_number = PyStr(Tok_t275)]

RawRecords == Records \cup {RecBlankIdRegno, RecMother800Label, NotADict}

RawFragments == UNION { [1..k -> RawRecords] : k \in 1..MaxRecords }

MergeRawInit ==
    /\ \E frag \in RawFragments : pedigrees \in { <<frag>>, <<frag, frag>> }
    /\ pi = 1 /\ ni = 1
    /\ graph = EmptyGraph
    /\ after_first = EmptyGraph
    /\ mpc = "merging"

\* the inner loop's body for an element without .get: _node_id_source
\* raises AttributeError, which nothing in the merge catches
MergeRaise ==
    /\ mpc = "merging"
    /\ pi <= Len(pedigrees)
    /\ ni <= Len(pedigrees[pi])
    /\ ~IsDict(pedigrees[pi][ni])
    /\ mpc' = "raised"
    /\ UNCHANGED <<pedigrees, pi, ni, graph, after_first>>
    /\ UNCHANGED <<canonVars, travVars, storeVars, sheetVars>>

\* the inner loop's body, for the next record of the current fragment
MergeNode ==
    /\ mpc = "merging"
    /\ pi <= Len(pedigrees)
    /\ ni <= Len(pedigrees[pi])
    /\ IsDict(pedigrees[pi][ni])
    /\ graph' = MergeRecord(graph, pedigrees[pi][ni])
    /\ ni' = ni + 1
    /\ UNCHANGED <<pedigrees, pi, mpc, after_first>>
    /\ UNCHANGED <<canonVars, travVars, storeVars, sheetVars>>

\* the outer loop moves to the next fragment
NextPedigree ==
    /\ mpc = "merging"
    /\ pi <= Len(pedigrees)
    /\ ni > Len(pedigrees[pi])
    /\ pi' = pi + 1
    /\ ni' = 1
    /\ after_first' = IF pi = 1 THEN graph ELSE after_first
    /\ UNCHANGED <<pedigrees, graph, mpc>>
    /\ UNCHANGED <<canonVars, travVars, storeVars, sheetVars>>

\* lines 270-273: the loop is over, the graph is saved and returned
MergeFinish ==
    /\ mpc = "merging"
    /\ pi > Len(pedigrees)
    /\ mpc' = "done"
    /\ UNCHANGED <<pedigrees, pi, ni, graph, after_first>>
    /\ UNCHANGED <<canonVars, travVars, storeVars, sheetVars>>

(***************************************************************************)
(* Graphs handed to the projector and the scorer.  A node is a dict:       *)
(* `nonempty` is its truthiness (an empty dict {} is falsy), father_id /   *)
(* mother_id are the parent keys, father / mother the fallback keys the    *)
(* scorer reads.  Node 1 is the root; further nodes are numbered in the    *)
(* order in which they are first referenced.  DanglingId is an id no node  *)
(* of the graph carries.                                                   *)
(***************************************************************************)
MaxNodes == 4
MaxEdges == 5
MaxScoredEdges == 4
MaxDepth == 2

DanglingId == 0

TNode(f, m) ==
    [nonempty |-> TRUE, father_id |-> f, mother_id |-> m, father |-> PyNone, mother |-> PyNone]

EmptyDict ==
    [nonempty |-> FALSE, father_id |-> PyNone, mother_id |-> PyNone, father |-> PyNone, mother |-> PyNone]

ParentKeys == {"father_id", "mother_id"}

FallbackKeys == {"father", "mother"}

EdgeCount(g) ==
    Cardinality({ e \in (DOMAIN g) \X (ParentKeys \cup FallbackKeys) : ~IsNone(g[e[1]][e[2]]) })

NextFreshId(g) == Cardinality(DOMAIN g) + 1

RootOnlyGraph == [k \in {1} |-> TNode(PyNone, PyNone)]

TravInit ==
    /\ tgraph = RootOnlyGraph
    /\ troot = 0 /\ tdepth = 0
    /\ tout = [op |-> "none"]
    /\ tpc = "build"

\* a node gains a parent reference under `key`: to a node of the graph, to a
\* new node, or to an id the graph has no node for
Link(g, c, key, p, fresh) ==
    LET linked == [g EXCEPT ![c][key] = PyInt(p)]
    IN  IF p \in DOMAIN g \/ p = DanglingId THEN linked
        ELSE GraphPut(linked, p, fresh)

\* graphs for the projector: parent keys only; a new node is a record with
\* no parents yet or an empty dict
LinkParent ==
    /\ tpc = "build"
    /\ EdgeCount(tgraph) < MaxEdges
    /\ \E c \in DOMAIN tgraph, key \in ParentKeys, p \in 0..MaxNodes,
          fresh \in {TNode(PyNone, PyNone), EmptyDict} :
          /\ tgraph[c].nonempty
          /\ IsNone(tgraph[c][key])
          /\ p <= NextFreshId(tgraph)
          /\ tgraph' = Link(tgraph, c, key, p, fresh)
    /\ UNCHANGED <<troot, tdepth, tout, tpc>>
    /\ UNCHANGED <<canonVars, mergeVars, storeVars, sheetVars>>

\* graphs for the scorer: parent keys; a new node is a record with no
\* parents yet
LinkScoredParent ==
    /\ tpc = "build"
    /\ EdgeCount(tgraph) < MaxScoredEdges
    /\ \E c \in DOMAIN tgraph, key \in ParentKeys, p \in 0..MaxNodes :
          /\ IsNone(tgraph[c][key])
          /\ p <= NextFreshId(tgraph)
          /\ tgraph' = Link(tgraph, c, key, p, TNode(PyNone, PyNone))
    /\ UNCHANGED <<troot, tdepth, tout, tpc>>
    /\ UNCHANGED <<canonVars, mergeVars, storeVars, sheetVars>>

\* graphs for the scorer: the root's record may carry the keys "father" /
\* "mother" as well, naming a node of the graph or an id it has no node for
LinkFallbackParent ==
    /\ tpc = "build"
    /\ EdgeCount(tgraph) < MaxScoredEdges
    /\ \E key \in FallbackKeys, p \in (DOMAIN tgraph) \cup {DanglingId} :
          /\ IsNone(tgraph[1][key])
          /\ tgraph' = Link(tgraph, 1, key, p, EmptyDict)
    /\ UNCHANGED <<troot, tdepth, tout, tpc>>
    /\ UNCHANGED <<canonVars, mergeVars, storeVars, sheetVars>>

Roots == {1, DanglingId}

(***************************************************************************)
(* project_ancestry                                                        *)
(***************************************************************************)
InGraph(g, v) == IsInt(v) /\ v.v \in DOMAIN g

AtCutLate(depth, max_depth) == depth > max_depth

AtCut(depth, max_depth) == depth >= max_depth

\* walk(horse_id, depth), threading projected / has_more / visited
RECURSIVE Walk(_, _, _, _, _)
Walk(g, max_depth, st, horse_id, depth) ==
    IF horse_id \in st.visited THEN st
    ELSE IF horse_id \notin DOMAIN g \/ ~g[horse_id].nonempty THEN st
    ELSE
        LET node == g[horse_id]
            st1  == [st EXCEPT !.visited = @ \cup {horse_id},
                               !.projected = @ \cup {horse_id}]
            father_in_graph == InGraph(g, node.father_id)
            mother_in_graph == InGraph(g, node.mother_id)
        IN  IF AtCut(depth, max_depth)
            THEN IF father_in_graph \/ mother_in_graph
                 THEN [st1 EXCEPT !.has_more = @ \cup {horse_id}]
                 ELSE st1
            ELSE LET st2 == IF father_in_graph
                            THEN Walk(g, max_depth, st1, node.father_id.v, depth + 1)
                            ELSE st1
                 IN  IF mother_in_graph
                     THEN Walk(g, max_depth, st2, node.mother_id.v, depth + 1)
                     ELSE st2

WalkStart == [projected |-> {}, has_more |-> {}, visited |-> {}]

project_ancestry(g, root_id, max_depth) ==
    LET st == Walk(g, max_depth, WalkStart, root_id, 0)
    IN  [op |-> "project",
         projected |-> [k \in st.projected |-> g[k]],
         has_more |-> st.has_more]

\* a projection that moves the nodes it projects out of the input graph
ProjectTakingNodes ==
    /\ tpc = "build"
    /\ \E r \in Roots, d \in 0..MaxDepth :
          /\ troot' = r
          /\ tdepth' = d
          /\ tout' = project_ancestry(tgraph, r, d)
          /\ tgraph' = [n \in (DOMAIN tgraph) \ (DOMAIN project_ancestry(tgraph, r, d).projected)
                           |-> tgraph[n]]
    /\ tpc' = "done"
    /\ UNCHANGED <<canonVars, mergeVars, storeVars, sheetVars>>

Project ==
    /\ tpc = "build"
    /\ \E r \in Roots, d \in 0..MaxDepth :
          /\ troot' = r
          /\ tdepth' = d
          /\ tout' = project_ancestry(tgraph, r, d)
    /\ tpc' = "done"
    /\ UNCHANGED tgraph
    /\ UNCHANGED <<canonVars, mergeVars, storeVars, sheetVars>>

(***************************************************************************)
(* ancestor_influence_scores.  The five sums are kept exactly, as          *)
(* numerators over a denominator fixed by max_depth: score_exp over        *)
(* 2^max_depth, score_exp_slow over ExpAlphaDen^max_depth, score_lin over  *)
(* max_depth, score_power over (max_depth + 1)!.  exp_alpha and power_p    *)
(* are at their defaults, 0.75 and 1.0.                                    *)
(***************************************************************************)
ExpAlphaNum == 3
ExpAlphaDen == 4

RECURSIVE Pow(_, _)
Pow(b, e) == IF e = 0 THEN 1 ELSE b * Pow(b, e - 1)

RECURSIVE Factorial(_)
Factorial(n) == IF n = 0 THEN 1 ELSE n * Factorial(n - 1)

UnitWeight(max_depth) ==
    [count |-> 1,
     score_exp |-> Pow(2, max_depth),
     score_exp_slow |-> Pow(ExpAlphaDen, max_depth),
     score_lin |-> max_depth,
     score_power |-> Factorial(max_depth + 1)]

\* w_lin(gen), times max_depth
w_lin(gen, max_depth) ==
    IF gen <= 0 THEN max_depth
    ELSE IF gen > max_depth THEN 0
    ELSE max_depth - gen + 1

GenWeight(gen, max_depth) ==
    [count |-> 1,
     score_exp |-> Pow(2, max_depth - gen),
     score_exp_slow |-> Pow(ExpAlphaNum, gen) * Pow(ExpAlphaDen, max_depth - gen),
     score_lin |-> w_lin(gen, max_depth),
     score_power |-> Factorial(max_depth + 1) \div (gen + 1)]

ZeroScore ==
    [count |-> 0, score_exp |-> 0, score_exp_slow |-> 0, score_lin |-> 0, score_power |-> 0]

_get_parent_id(node, key) ==
    IF IsInt(node[key]) THEN node[key]
    ELSE IF key = "father_id"
         THEN (IF IsInt(node.father) THEN node.father ELSE PyNone)
    ELSE IF key = "mother_id"
         THEN (IF IsInt(node.mother) THEN node.mother ELSE PyNone)
    ELSE PyNone

\* merged_graph.get(hid) or {}
NodeOrEmpty(g, hid) == IF hid \in DOMAIN g THEN g[hid] ELSE EmptyDict

\* nxt: for each hid of current, in order, its father and then its mother,
\* each only when it is an int and a key of the graph
NextGeneration(g, current) ==
    LET slots == [j \in 1..(2 * Len(current)) |->
                    LET node == NodeOrEmpty(g, current[(j + 1) \div 2])
                    IN  IF j % 2 = 1 THEN _get_parent_id(node, "father_id")
                                     ELSE _get_parent_id(node, "mother_id")]
        kept  == SelectSeq(slots, LAMBDA v : InGraph(g, v))
    IN  [i \in 1..Len(kept) |-> kept[i].v]

OccurrencesOnce(nxt, aid) ==
    IF \E i \in 1..Len(nxt) : nxt[i] = aid THEN 1 ELSE 0

\* how many times the loop `for aid in nxt` meets aid
Occurrences(nxt, aid) ==
    Cardinality({ i \in 1..Len(nxt) : nxt[i] = aid })

\* scores[aid] += the weights, once per element of nxt
Accumulate(scores, nxt, w) ==
    LET touched == { nxt[i] : i \in 1..Len(nxt) }
    IN  [k \in (DOMAIN scores) \cup touched |->
            LET old == IF k \in DOMAIN scores THEN scores[k] ELSE ZeroScore
                n   == Occurrences(nxt, k)
            IN  [count |-> old.count + n * w.count,
                 score_exp |-> old.score_exp + n * w.score_exp,
                 score_exp_slow |-> old.score_exp_slow + n * w.score_exp_slow,
                 score_lin |-> old.score_lin + n * w.score_lin,
                 score_power |-> old.score_power + n * w.score_power]]

\* the loop left after its first generation
GenerationLoopFirstOnly(g, max_depth, gen, current, scores) ==
    IF gen > max_depth THEN scores
    ELSE LET nxt == NextGeneration(g, current)
         IN  IF Len(nxt) = 0 THEN scores
             ELSE Accumulate(scores, nxt, GenWeight(gen, max_depth))

\* for gen in range(gen, max_depth + 1), leaving at the first empty nxt
RECURSIVE GenerationLoop(_, _, _, _, _)
GenerationLoop(g, max_depth, gen, current, scores) ==
    IF gen > max_depth THEN scores
    ELSE LET nxt == NextGeneration(g, current)
         IN  IF Len(nxt) = 0 THEN scores
             ELSE GenerationLoop(g, max_depth, gen + 1, nxt,
                                 Accumulate(scores, nxt, GenWeight(gen, max_depth)))

NoFocus == [given |-> FALSE, ids |-> {}]

Focus(ids) == [given |-> TRUE, ids |-> ids]

FocusChoices == {NoFocus, Focus({2, DanglingId})}

\* the scorer with the focus entries made before the root is looked up
ScoresWithFocusBeforeRootTest(g, root_id, max_depth, include_root, focus_ids) ==
    LET start  == IF include_root /\ root_id \in DOMAIN g
                  THEN Accumulate(<< >>, <<root_id>>, UnitWeight(max_depth))
                  ELSE << >>
        scores == IF root_id \in DOMAIN g
                  THEN GenerationLoop(g, max_depth, 1, <<root_id>>, start)
                  ELSE << >>
        keys   == IF focus_ids.given THEN focus_ids.ids ELSE DOMAIN scores
    IN  [hid \in keys |-> IF hid \in DOMAIN scores THEN scores[hid] ELSE ZeroScore]

\* the scorer without the zero entries for focus ids it never met
ScoresForReachedFocusOnly(g, root_id, max_depth, include_root, focus_ids) ==
    IF root_id \notin DOMAIN g THEN << >>
    ELSE
        LET start  == IF include_root
                      THEN Accumulate(<< >>, <<root_id>>, UnitWeight(max_depth))
                      ELSE << >>
            scores == GenerationLoop(g, max_depth, 1, <<root_id>>, start)
            keys   == IF focus_ids.given THEN focus_ids.ids \cap DOMAIN scores
                      ELSE DOMAIN scores
        IN  [hid \in keys |-> scores[hid]]

\* the scorer with include_root giving the root its generation-0 entry only
\* when the loop has made none for it
ScoresWithRootOnlyWhenUnmet(g, root_id, max_depth, include_root, focus_ids) ==
    IF root_id \notin DOMAIN g THEN << >>
    ELSE
        LET met    == GenerationLoop(g, max_depth, 1, <<root_id>>, << >>)
            scores == IF include_root /\ root_id \notin DOMAIN met
                      THEN Accumulate(met, <<root_id>>, UnitWeight(max_depth))
                      ELSE met
            keys   == IF focus_ids.given THEN focus_ids.ids ELSE DOMAIN scores
        IN  [hid \in keys |-> IF hid \in DOMAIN scores THEN scores[hid] ELSE ZeroScore]

ancestor_influence_scores(g, root_id, max_depth, include_root, focus_ids) ==
    IF root_id \notin DOMAIN g THEN << >>
    ELSE
        LET start  == IF include_root
                      THEN Accumulate(<< >>, <<root_id>>, UnitWeight(max_depth))
                      ELSE << >>
            scores == GenerationLoop(g, max_depth, 1, <<root_id>>, start)
            keys   == IF focus_ids.given THEN focus_ids.ids ELSE DOMAIN scores
        IN  [hid \in keys |-> IF hid \in DOMAIN scores THEN scores[hid] ELSE ZeroScore]

Score ==
    /\ tpc = "build"
    /\ \E r \in Roots, d \in 0..MaxDepth, include_root \in BOOLEAN, focus_ids \in FocusChoices :
          /\ troot' = r
          /\ tdepth' = d
          /\ tout' = [op |-> "score",
                      include_root |-> include_root,
                      focus_ids |-> focus_ids,
                      scores |-> ancestor_influence_scores(tgraph, r, d, include_root, focus_ids)]
    /\ tpc' = "done"
    /\ UNCHANGED tgraph
    /\ UNCHANGED <<canonVars, mergeVars, storeVars, sheetVars>>

(***************************************************************************)
(* merged_generation_summary: breadth-first, one distance per node.        *)
(* max_depth is None or an int.  q holds <<nid, d>> pairs, dist maps the   *)
(* nodes met so far to their generation.                                   *)
(***************************************************************************)
DiscoverSameGeneration(g, st, pid, d) ==
    IF InGraph(g, pid) /\ pid.v \notin DOMAIN st.dist
    THEN [q |-> Append(st.q, <<pid.v, d + 1>>),
          dist |-> [k \in (DOMAIN st.dist) \cup {pid.v} |->
                       IF k = pid.v THEN d ELSE st.dist[k]]]
    ELSE st

\* the body of `for pid in (father_id, mother_id)` for one pid
Discover(g, st, pid, d) ==
    IF InGraph(g, pid) /\ pid.v \notin DOMAIN st.dist
    THEN [q |-> Append(st.q, <<pid.v, d + 1>>),
          dist |-> [k \in (DOMAIN st.dist) \cup {pid.v} |->
                       IF k = pid.v THEN d + 1 ELSE st.dist[k]]]
    ELSE st

\* one turn of `while q`: pop the head, skip it at the cap, else look at
\* its father and then its mother
BfsStep(g, max_depth, st) ==
    LET nid    == Head(st.q)[1]
        d      == Head(st.q)[2]
        popped == [st EXCEPT !.q = Tail(st.q)]
        node   == NodeOrEmpty(g, nid)
    IN  IF IsInt(max_depth) /\ d >= max_depth.v THEN popped
        ELSE Discover(g, Discover(g, popped, node.father_id, d), node.mother_id, d)

BfsStart(root_id) ==
    [q |-> << <<root_id, 0>> >>, dist |-> [k \in {root_id} |-> 0]]

RECURSIVE BfsLoop(_, _, _)
BfsLoop(g, max_depth, st) ==
    IF Len(st.q) = 0 THEN st.dist
    ELSE BfsLoop(g, max_depth, BfsStep(g, max_depth, st))

\* Counter(dist.values())
GenCounts(dist) ==
    [gen \in { dist[k] : k \in DOMAIN dist } |->
        Cardinality({ k \in DOMAIN dist : dist[k] = gen })]

f_known(g, nid) == InGraph(g, NodeOrEmpty(g, nid).father_id)

m_known(g, nid) == InGraph(g, NodeOrEmpty(g, nid).mother_id)

IsClosed(g, nid) == ~f_known(g, nid) /\ ~m_known(g, nid)

\* the elif taken as an else: every node that is not closed
IsOpenOrResolved(g, nid) == ~IsClosed(g, nid)

\* the elif branch: not closed, and one parent unknown
IsOpen(g, nid) == ~IsClosed(g, nid) /\ (~f_known(g, nid) \/ ~m_known(g, nid))

MaxOf(S) == CHOOSE x \in S : \A y \in S : y <= x

SummaryOf(g, dist) ==
    LET gen_counts == GenCounts(dist)
    IN  [total_nodes |-> Cardinality(DOMAIN dist),
         max_generation |-> IF DOMAIN gen_counts # {} THEN MaxOf(DOMAIN gen_counts) ELSE 0,
         open_nodes |-> Cardinality({ nid \in DOMAIN dist : IsOpen(g, nid) }),
         closed_nodes |-> Cardinality({ nid \in DOMAIN dist : IsClosed(g, nid) })]

merged_generation_summary(g, root_id, max_depth) ==
    IF root_id \notin DOMAIN g
    THEN [summary |-> [total_nodes |-> 0, max_generation |-> 0,
                       open_nodes |-> 0, closed_nodes |-> 0],
          gen_counts |-> << >>]
    ELSE LET dist == BfsLoop(g, max_depth, BfsStart(root_id))
         IN  [summary |-> SummaryOf(g, dist), gen_counts |-> GenCounts(dist)]

DepthCaps == {PyNone} \cup { PyInt(d) : d \in 0..MaxDepth }

UniqueSummary ==
    /\ tpc = "build"
    /\ \E r \in Roots, max_depth \in DepthCaps :
          LET res == merged_generation_summary(tgraph, r, max_depth)
          IN  /\ troot' = r
              /\ tdepth' = IF IsInt(max_depth) THEN max_depth.v ELSE 0
              /\ tout' = [op |-> "unique_summary",
                          max_depth |-> max_depth,
                          summary |-> res.summary,
                          gen_counts |-> res.gen_counts]
    /\ tpc' = "done"
    /\ UNCHANGED tgraph
    /\ UNCHANGED <<canonVars, mergeVars, storeVars, sheetVars>>

(***************************************************************************)
(* merged_generation_appearance_summary: the generation lists of the       *)
(* scorer, read through father_id / mother_id only.                        *)
(***************************************************************************)
\* nxt, lines 84-93
\* nxt with the father appended and the mother left out
NextAppearancesFathersOnly(g, current) ==
    LET slots == [j \in 1..Len(current) |-> NodeOrEmpty(g, current[j]).father_id]
        kept  == SelectSeq(slots, LAMBDA v : InGraph(g, v))
    IN  [i \in 1..Len(kept) |-> kept[i].v]

NextAppearances(g, current) ==
    LET slots == [j \in 1..(2 * Len(current)) |->
                    LET node == NodeOrEmpty(g, current[(j + 1) \div 2])
                    IN  IF j % 2 = 1 THEN node.father_id ELSE node.mother_id]
        kept  == SelectSeq(slots, LAMBDA v : InGraph(g, v))
    IN  [i \in 1..Len(kept) |-> kept[i].v]

Extend(f, k, v) == [x \in (DOMAIN f) \cup {k} |-> IF x = k THEN v ELSE f[x]]

\* for gen in range(gen, max_depth + 1), leaving at the first empty nxt
RECURSIVE AppearanceLoop(_, _, _, _, _)
AppearanceLoop(g, max_depth, gen, current, acc) ==
    IF gen > max_depth THEN acc
    ELSE LET nxt == NextAppearances(g, current)
         IN  IF Len(nxt) = 0 THEN acc
             ELSE AppearanceLoop(g, max_depth, gen + 1, nxt,
                    [appearances_per_gen |-> Extend(acc.appearances_per_gen, gen, Len(nxt)),
                     unique_per_gen |-> Extend(acc.unique_per_gen, gen,
                                          Cardinality({ nxt[i] : i \in 1..Len(nxt) }))])

merged_generation_appearance_summary(g, root_id, max_depth) ==
    IF root_id \notin DOMAIN g
    THEN [appearances_per_gen |-> << >>, unique_per_gen |-> << >>]
    ELSE AppearanceLoop(g, max_depth, 1, <<root_id>>,
            [appearances_per_gen |-> [gen \in {0} |-> 1],
             unique_per_gen |-> [gen \in {0} |-> 1]])

AppearanceSummary ==
    /\ tpc = "build"
    /\ \E r \in Roots, d \in 0..MaxDepth :
          LET res == merged_generation_appearance_summary(tgraph, r, d)
          IN  /\ troot' = r
              /\ tdepth' = d
              /\ tout' = [op |-> "appearance_summary",
                          appearances_per_gen |-> res.appearances_per_gen,
                          unique_per_gen |-> res.unique_per_gen]
    /\ tpc' = "done"
    /\ UNCHANGED tgraph
    /\ UNCHANGED <<canonVars, mergeVars, storeVars, sheetVars>>

(***************************************************************************)
(* The traversals turn by turn.  tout holds the locals of the running      *)
(* call; tpc is "run" while it runs, "done" when it has returned and       *)
(* "raised" when an exception has left it.                                 *)
(***************************************************************************)
\* 2 ** gen is an int; 1.0 / (2 ** gen) converts it to a float, which raises
\* OverflowError from 2 ** FloatMaxExp on
FloatMaxExp == 1024

\* beyond MaxDepth a run is followed only while its generation list is short
MaxWave == 1

DeepDepths == (0..MaxDepth) \cup {FloatMaxExp}

\* ancestor_influence_scores: root test, current = [root_id]
ScoreCall ==
    /\ tpc = "build"
    /\ \E r \in Roots, d \in DeepDepths :
          /\ troot' = r
          /\ tdepth' = d
          /\ IF r \in DOMAIN tgraph
             THEN /\ tout' = [op |-> "scoring", gen |-> 1, current |-> <<r>>]
                  /\ tpc' = "run"
             ELSE /\ tout' = [op |-> "scored"]
                  /\ tpc' = "done"
    /\ UNCHANGED tgraph
    /\ UNCHANGED <<canonVars, mergeVars, storeVars, sheetVars>>

\* one turn of `for gen in range(1, max_depth + 1)`, or the end of the loop
ScoreTurn ==
    /\ tpc = "run" /\ tout.op = "scoring"
    /\ tdepth <= MaxDepth \/ Len(tout.current) <= MaxWave
    /\ LET nxt == NextGeneration(tgraph, tout.current)
       IN  IF tout.gen > tdepth \/ Len(nxt) = 0
           THEN tout' = [op |-> "scored"] /\ tpc' = "done"
           ELSE IF tout.gen >= FloatMaxExp
           THEN tout' = [op |-> "OverflowError"] /\ tpc' = "raised"
           ELSE tout' = [tout EXCEPT !.gen = @ + 1, !.current = nxt] /\ tpc' = tpc
    /\ UNCHANGED <<tgraph, troot, tdepth>>
    /\ UNCHANGED <<canonVars, mergeVars, storeVars, sheetVars>>

\* merged_generation_appearance_summary: root test, current = [root_id]
AppearanceCall ==
    /\ tpc = "build"
    /\ \E r \in Roots, d \in DeepDepths :
          /\ troot' = r
          /\ tdepth' = d
          /\ IF r \in DOMAIN tgraph
             THEN /\ tout' = [op |-> "appearing", gen |-> 1, current |-> <<r>>]
                  /\ tpc' = "run"
             ELSE /\ tout' = [op |-> "appeared"]
                  /\ tpc' = "done"
    /\ UNCHANGED tgraph
    /\ UNCHANGED <<canonVars, mergeVars, storeVars, sheetVars>>

\* one turn of its loop, or the end of the loop
AppearanceTurn ==
    /\ tpc = "run" /\ tout.op = "appearing"
    /\ tdepth <= MaxDepth \/ Len(tout.current) <= MaxWave
    /\ LET nxt == NextAppearances(tgraph, tout.current)
       IN  IF tout.gen > tdepth \/ Len(nxt) = 0
           THEN tout' = [op |-> "appeared"] /\ tpc' = "done"
           ELSE tout' = [tout EXCEPT !.gen = @ + 1, !.current = nxt] /\ tpc' = tpc
    /\ UNCHANGED <<tgraph, troot, tdepth>>
    /\ UNCHANGED <<canonVars, mergeVars, storeVars, sheetVars>>

\* merged_generation_summary: root test, q and dist
BfsCall ==
    /\ tpc = "build"
    /\ \E r \in Roots, max_depth \in DepthCaps :
          /\ troot' = r
          /\ tdepth' = IF IsInt(max_depth) THEN max_depth.v ELSE 0
          /\ IF r \in DOMAIN tgraph
             THEN /\ tout' = [op |-> "summarising", max_depth |-> max_depth,
                              st |-> BfsStart(r)]
                  /\ tpc' = "run"
             ELSE /\ tout' = [op |-> "summarised"]
                  /\ tpc' = "done"
    /\ UNCHANGED tgraph
    /\ UNCHANGED <<canonVars, mergeVars, storeVars, sheetVars>>

\* one turn of `while q`, or the end of the loop
BfsTurn ==
    /\ tpc = "run" /\ tout.op = "summarising"
    /\ IF Len(tout.st.q) = 0
       THEN tout' = [op |-> "summarised"] /\ tpc' = "done"
       ELSE tout' = [tout EXCEPT !.st = BfsStep(tgraph, tout.max_depth, tout.st)]
            /\ tpc' = tpc
    /\ UNCHANGED <<tgraph, troot, tdepth>>
    /\ UNCHANGED <<canonVars, mergeVars, storeVars, sheetVars>>

\* project_ancestry: walk(root_id, depth=0); frames holds the calls of walk
\* that have not returned, the innermost last
WalkCall ==
    /\ tpc = "build"
    /\ \E r \in Roots, d \in 0..MaxDepth :
          /\ troot' = r
          /\ tdepth' = d
          /\ tout' = [op |-> "walking", visited |-> {}, has_more |-> {},
                      frames |-> << [horse_id |-> r, depth |-> 0, at |-> "entry"] >>]
    /\ tpc' = "run"
    /\ UNCHANGED tgraph
    /\ UNCHANGED <<canonVars, mergeVars, storeVars, sheetVars>>

Push(frames, at, horse_id, depth) ==
    Append([frames EXCEPT ![Len(frames)].at = at],
           [horse_id |-> horse_id, depth |-> depth, at |-> "entry"])

Pop(frames) == SubSeq(frames, 1, Len(frames) - 1)

\* the innermost call of walk runs to its next call of walk or to its return
WalkTurn ==
    /\ tpc = "run" /\ tout.op = "walking"
    /\ IF Len(tout.frames) = 0
       THEN tout' = [op |-> "walked"] /\ tpc' = "done"
       ELSE
         LET top  == tout.frames[Len(tout.frames)]
             node == NodeOrEmpty(tgraph, top.horse_id)
             father_in_graph == InGraph(tgraph, node.father_id)
             mother_in_graph == InGraph(tgraph, node.mother_id)
             entered == [tout EXCEPT !.visited = @ \cup {top.horse_id}]
         IN  /\ tpc' = tpc
             /\ tout' =
                 IF top.at = "entry"
                 THEN IF top.horse_id \in tout.visited \/ ~node.nonempty
                      THEN [tout EXCEPT !.frames = Pop(@)]
                      ELSE IF AtCut(top.depth, tdepth)
                      THEN [entered EXCEPT !.frames = Pop(@),
                                           !.has_more = IF father_in_graph \/ mother_in_graph
                                                        THEN @ \cup {top.horse_id} ELSE @]
                      ELSE IF father_in_graph
                      THEN [entered EXCEPT !.frames =
                               Push(@, "after_father", node.father_id.v, top.depth + 1)]
                      ELSE IF mother_in_graph
                      THEN [entered EXCEPT !.frames =
                               Push(@, "after_mother", node.mother_id.v, top.depth + 1)]
                      ELSE [entered EXCEPT !.frames = Pop(@)]
                 ELSE IF top.at = "after_father" /\ mother_in_graph
                 THEN [tout EXCEPT !.frames =
                          Push(@, "after_mother", node.mother_id.v, top.depth + 1)]
                 ELSE [tout EXCEPT !.frames = Pop(@)]
    /\ UNCHANGED <<tgraph, troot, tdepth>>
    /\ UNCHANGED <<canonVars, mergeVars, storeVars, sheetVars>>

(***************************************************************************)
(* Graph store: the persisted snapshot of the merged graph, its two        *)
(* loaders, and build_merged_pedigree_graph around them.  The snapshot is  *)
(* the JSON payload read through payload.get(...); a key the payload lacks *)
(* reads as None.  The fragment written at time t holds the horse          *)
(* HorseOf(t), so the merge of all fragments is known from the newest      *)
(* fragment's mtime.                                                       *)
(***************************************************************************)
SchemaVersion == 1
MaxMtime == 2

Missing == [exists |-> FALSE]

Mtimes == {PyNone} \cup { PyInt(t) : t \in 0..MaxMtime }

\* str(k) for a graph key
RECURSIVE StrOfNat(_)
StrOfNat(n) ==
    IF n < 10 THEN <<Digits[n + 1]>> ELSE Append(StrOfNat(n \div 10), Digits[(n % 10) + 1])

StrOfInt(k) == IF k < 0 THEN <<"-">> \o StrOfNat(-k) ELSE StrOfNat(k)

\* int(k) for a key of the stored object
IntOfStr(s) == IF s[1] = "-" THEN -IntOfDigits(Tail(s)) ELSE IntOfDigits(s)

HorseOf(t) == IF t = 0 THEN KAPRELL_ID ELSE t

StoredNode(k) == [horse_id |-> k]

\* the graph the merge loop builds from all cached fragments, starting
\* from the empty graph
MergedFromFragments(current) ==
    IF IsInt(current)
    THEN [k \in { HorseOf(t) : t \in 0..current.v } |-> StoredNode(k)]
    ELSE << >>

\* serializable_graph = {str(k): v for k, v in graph.items()}
Serializable(g) ==
    [ks \in { StrOfInt(k) : k \in DOMAIN g } |-> g[IntOfStr(ks)]]

\* graph[int(k)] = v for k, v in graph_raw.items()
Deserialized(graph_raw) ==
    [k \in { IntOfStr(ks) : ks \in DOMAIN graph_raw } |->
        graph_raw[CHOOSE ks \in DOMAIN graph_raw : IntOfStr(ks) = k]]

\* the payload's "graph" value: a JSON object with its items, or a value
\* that is not an object
JsonObject(items) == [object |-> TRUE, items |-> items]

NotAnObject == [object |-> FALSE, items |-> << >>]

Payloads ==
    [exists : {TRUE},
     schema_version : {PyNone, PyInt(SchemaVersion), PyInt(SchemaVersion + 1)},
     source_max_mtime : Mtimes,
     graph : {NotAnObject} \cup { JsonObject(Serializable(MergedFromFragments(m))) : m \in Mtimes }]

Outcome(kind, exc, g) == [kind |-> kind, exc |-> exc, graph |-> g]

Raised(exc) == Outcome("raised", exc, << >>)

ReturnedNone == Outcome("None", "", << >>)

Returned(g) == Outcome("graph", "", g)

\* the payload written for `graph` when the newest fragment has mtime `current`
save_merged_pedigree_graph(g, current) ==
    [exists |-> TRUE, schema_version |-> PyInt(SchemaVersion),
     source_max_mtime |-> current, graph |-> JsonObject(Serializable(g))]

Stale(file, current) ==
    /\ IsInt(file.source_max_mtime) /\ IsInt(current)
    /\ current.v > file.source_max_mtime.v

load_merged_pedigree_graph(file, current) ==
    IF ~file.exists THEN Raised("FileNotFoundError")
    ELSE IF file.schema_version # PyInt(SchemaVersion) THEN Raised("ValueError")
    ELSE IF Stale(file, current) THEN Raised("ValueError")
    ELSE IF ~file.graph.object THEN Raised("ValueError")
    ELSE Returned(Deserialized(file.graph.items))

\* the legacy wrapper, the loader every caller in the program uses
load_merged_graph(file, current) ==
    IF ~file.exists THEN ReturnedNone
    ELSE IF load_merged_pedigree_graph(file, current).kind = "raised" THEN ReturnedNone
    ELSE load_merged_pedigree_graph(file, current)

LoadApis == {"load_merged_pedigree_graph", "load_merged_graph"}

LoadBy(api, file, current) ==
    IF api = "load_merged_graph" THEN load_merged_graph(file, current)
    ELSE load_merged_pedigree_graph(file, current)

StoreIdle ==
    /\ snapshot = Missing /\ source_mtime = PyNone /\ loaded = [api |-> "none"]

\* a fragment file newer than all others appears in the flattened cache
WriteFragment ==
    /\ \E t \in 0..MaxMtime :
          /\ IsInt(source_mtime) => t = source_mtime.v + 1
          /\ IsNone(source_mtime) => t = 0
          /\ source_mtime' = PyInt(t)
    /\ UNCHANGED <<snapshot, loaded>>
    /\ UNCHANGED <<canonVars, mergeVars, travVars, sheetVars>>

\* the file found at the snapshot path when the program starts: none, or
\* one left there by any version of the program
ReplaceSnapshot ==
    /\ loaded.api = "none"
    /\ snapshot' \in Payloads \cup {Missing}
    /\ UNCHANGED <<source_mtime, loaded>>
    /\ UNCHANGED <<canonVars, mergeVars, travVars, sheetVars>>

LoadSnapshot ==
    /\ loaded' = [api |-> "load_merged_pedigree_graph", file |-> snapshot,
                  current |-> source_mtime,
                  result |-> load_merged_pedigree_graph(snapshot, source_mtime)]
    /\ UNCHANGED <<snapshot, source_mtime>>
    /\ UNCHANGED <<canonVars, mergeVars, travVars, sheetVars>>

\* _get_or_build_merged_graph: merged_graph = load_merged_graph()
LoadCached ==
    /\ loaded' = [api |-> "load_merged_graph", file |-> snapshot,
                  current |-> source_mtime,
                  result |-> load_merged_graph(snapshot, source_mtime)]
    /\ UNCHANGED <<snapshot, source_mtime>>
    /\ UNCHANGED <<canonVars, mergeVars, travVars, sheetVars>>

\* build_merged_pedigree_graph that returns a cached graph only when the
\* caller asked for a rebuild
BuildWithFlagInverted(force_rebuild) ==
    LET cached == IF ~force_rebuild THEN ReturnedNone
                  ELSE load_merged_graph(snapshot, source_mtime)
        g      == MergedFromFragments(source_mtime)
    IN  IF cached.kind = "graph"
        THEN [returned |-> cached.graph, merged |-> FALSE, saved |-> snapshot]
        ELSE [returned |-> g, merged |-> TRUE,
              saved |-> save_merged_pedigree_graph(g, source_mtime)]

\* build_merged_pedigree_graph(force_rebuild): what it returns, whether the
\* merge loop ran, and the snapshot file it leaves
Build(force_rebuild) ==
    LET cached == IF force_rebuild THEN ReturnedNone
                  ELSE load_merged_graph(snapshot, source_mtime)
        g      == MergedFromFragments(source_mtime)
    IN  IF cached.kind = "graph"
        THEN [returned |-> cached.graph, merged |-> FALSE, saved |-> snapshot]
        ELSE [returned |-> g, merged |-> TRUE,
              saved |-> save_merged_pedigree_graph(g, source_mtime)]

BuildGraph ==
    /\ \E force_rebuild \in BOOLEAN :
          /\ loaded' = [api |-> "build_merged_pedigree_graph",
                        force_rebuild |-> force_rebuild,
                        file |-> snapshot, current |-> source_mtime,
                        result |-> Build(force_rebuild)]
          /\ snapshot' = Build(force_rebuild).saved
    /\ UNCHANGED source_mtime
    /\ UNCHANGED <<canonVars, mergeVars, travVars, sheetVars>>

(***************************************************************************)
(* scores_xlsx: the data rows of the scores sheet (rows 2, 3, ... of the   *)
(* worksheet) under the headers HorseId, Name, BirthYear and the score      *)
(* columns.  The score cells of a row are held as one value: the number of *)
(* the call that wrote them.                                               *)
(***************************************************************************)
MaxCalls == 3

Name_Star        == <<"S", "t", "a", "r">>
Name_star_marked == <<"s", "t", "a", "r", "*", " ", "(", "N", "O", ")">>
Name_Comet       == <<" ", "C", "o", "m", "e", "t", " ", " ", "(", "x", ")", " ", "(", "S", "E", ")">>

HorseNames == {Name_Star, Name_star_marked, Name_Comet}

HorseIds == {PyNone, PyInt(1), PyInt(2)}

BirthYears == {PyNone, PyInt(2000)}

\* name.splitlines()[0], for a name that is not empty
FirstLine(s) ==
    IF \E i \in 1..Len(s) : s[i] = "\n"
    THEN SubSeq(s, 1, (CHOOSE i \in 1..Len(s) : s[i] = "\n" /\ \A j \in 1..(i - 1) : s[j] # "\n") - 1)
    ELSE s

\* s.replace("*", "")
WithoutStars(s) == SelectSeq(s, LAMBDA c : c # "*")

\* where the leftmost match of \([^)]*\)\s*$ starts in a string that ends
\* with ")": the first "(" with no ")" between it and the end
ParensStarts(t) ==
    { i \in 1..(Len(t) - 1) : t[i] = "(" /\ \A j \in (i + 1)..(Len(t) - 1) : t[j] # ")" }

\* _PARENS_SUFFIX_RE.sub("", s)
WithoutParensSuffix(s) ==
    LET t == RStrip(s) IN
    IF Len(t) > 0 /\ t[Len(t)] = ")" /\ ParensStarts(t) # {}
    THEN RStrip(SubSeq(t, 1, (CHOOSE i \in ParensStarts(t) : \A j \in ParensStarts(t) : i <= j) - 1))
    ELSE s

\* " ".join(s.split())
RECURSIVE CollapseRuns(_)
CollapseRuns(s) ==
    IF Len(s) <= 1 THEN s
    ELSE IF IsSpace(s[1]) /\ IsSpace(s[2]) THEN CollapseRuns(Tail(s))
    ELSE <<s[1]>> \o CollapseRuns(Tail(s))

_normalize_name_for_key(name) ==
    Lower(CollapseRuns(Strip(WithoutParensSuffix(Strip(WithoutStars(Strip(FirstLine(name))))))))

_cell_int_or_none(v) ==
    IF IsInt(v) THEN v
    ELSE IF IsStr(v) /\ IsDecimal(Strip(v.v)) THEN PyInt(IntOfDigits(Strip(v.v)))
    ELSE PyNone

_cell_str(v) == IF IsStr(v) THEN v.v ELSE << >>

\* the value written to a HorseId or BirthYear cell: the int, or ""
CellOf(v) == IF IsNone(v) THEN PyStr(<< >>) ELSE v

\* row_data for one call
RowData(horse_id, horse_name, birth_year, scores) ==
    [HorseId |-> CellOf(horse_id), Name |-> PyStr(horse_name),
     BirthYear |-> CellOf(birth_year), Scores |-> scores]

\* the data rows that match the key, as the set of their indices
_find_matching_rows(ws, horse_id, horse_name, birth_year) ==
    { r \in 1..Len(ws) :
        /\ _cell_int_or_none(ws[r].BirthYear) = birth_year
        /\ IF ~IsNone(horse_id)
           THEN _cell_int_or_none(ws[r].HorseId) = horse_id
           ELSE _normalize_name_for_key(_cell_str(ws[r].Name))
                    = _normalize_name_for_key(horse_name) }

FirstOf(rows) == CHOOSE r \in rows : \A q \in rows : r <= q

\* the rows of ws without those of `rows`, in order
RECURSIVE DeleteRows(_, _, _)
DeleteRows(ws, rows, r) ==
    IF r > Len(ws) THEN << >>
    ELSE (IF r \in rows THEN << >> ELSE <<ws[r]>>) \o DeleteRows(ws, rows, r + 1)

\* the upsert that overwrites the first match and keeps the other matches
UpsertKeepingDuplicates(ws, horse_id, horse_name, birth_year, scores) ==
    LET matching_rows == _find_matching_rows(ws, horse_id, horse_name, birth_year)
        row_data      == RowData(horse_id, horse_name, birth_year, scores)
    IN  IF matching_rows # {}
        THEN [ws EXCEPT ![FirstOf(matching_rows)] = row_data]
        ELSE Append(ws, row_data)

\* append_scores_row, from row_data to the save: the data rows it leaves
append_scores_row(ws, horse_id, horse_name, birth_year, scores) ==
    LET matching_rows == _find_matching_rows(ws, horse_id, horse_name, birth_year)
        row_data      == RowData(horse_id, horse_name, birth_year, scores)
    IN  IF matching_rows # {}
        THEN DeleteRows([ws EXCEPT ![FirstOf(matching_rows)] = row_data],
                        matching_rows \ {FirstOf(matching_rows)}, 1)
        ELSE Append(ws, row_data)

NoCall == [n |-> 0]

SheetIdle == sheet = << >> /\ call = NoCall

\* one run of main with --scores-xlsx
AppendScoresRow ==
    /\ call.n < MaxCalls
    /\ \E horse_id \in HorseIds, horse_name \in HorseNames, birth_year \in BirthYears :
          /\ sheet' = append_scores_row(sheet, horse_id, horse_name, birth_year, call.n + 1)
          /\ call' = [n |-> call.n + 1, horse_id |-> horse_id, horse_name |-> horse_name,
                      birth_year |-> birth_year, before |-> sheet]
    /\ UNCHANGED <<canonVars, mergeVars, travVars, storeVars>>

(***************************************************************************)
(* Specifications                                                          *)
(***************************************************************************)
TravIdle ==
    /\ tgraph = EmptyGraph /\ troot = 0 /\ tdepth = 0
    /\ tout = [op |-> "none"] /\ tpc = Idle

CanonInit ==
    /\ tokA \in CanonInputs /\ tokB \in CanonInputs
    /\ resA = NotRun /\ resB = NotRun
    /\ MergeIdle /\ TravIdle /\ StoreIdle /\ SheetIdle

CanonNext == CanonFirst \/ CanonSecond

SpecCanon == CanonInit /\ [][CanonNext]_vars

MergeSpecInit == MergeInit /\ CanonIdle /\ TravIdle /\ StoreIdle /\ SheetIdle

MergeNext == MergeNode \/ NextPedigree \/ MergeFinish

SpecMerge == MergeSpecInit /\ [][MergeNext]_vars

MergeRawSpecInit == MergeRawInit /\ CanonIdle /\ TravIdle /\ StoreIdle /\ SheetIdle

MergeRawNext == MergeNode \/ MergeRaise \/ NextPedigree \/ MergeFinish

SpecMergeRaw == MergeRawSpecInit /\ [][MergeRawNext]_vars

ProjectInit == TravInit /\ CanonIdle /\ MergeIdle /\ StoreIdle /\ SheetIdle

ProjectNext == LinkParent \/ Project

SpecProject == ProjectInit /\ [][ProjectNext]_vars

ScoreInit == TravInit /\ CanonIdle /\ MergeIdle /\ StoreIdle /\ SheetIdle

ScoreNext == LinkScoredParent \/ LinkFallbackParent \/ Score

SpecScore == ScoreInit /\ [][ScoreNext]_vars

TraverseInit == TravInit /\ CanonIdle /\ MergeIdle /\ StoreIdle /\ SheetIdle

TraverseNext ==
    \/ LinkScoredParent
    \/ LinkFallbackParent
    \/ Project
    \/ Score
    \/ UniqueSummary
    \/ AppearanceSummary

SpecTraverse == TraverseInit /\ [][TraverseNext]_vars

StepsInit == TravInit /\ CanonIdle /\ MergeIdle /\ StoreIdle /\ SheetIdle

StepsNext ==
    \/ LinkScoredParent
    \/ LinkFallbackParent
    \/ ScoreCall \/ ScoreTurn
    \/ AppearanceCall \/ AppearanceTurn
    \/ BfsCall \/ BfsTurn
    \/ WalkCall \/ WalkTurn

SpecSteps == StepsInit /\ [][StepsNext]_vars

StoreInit == StoreIdle /\ CanonIdle /\ MergeIdle /\ TravIdle /\ SheetIdle

StoreNext == WriteFragment \/ ReplaceSnapshot \/ LoadSnapshot \/ LoadCached \/ BuildGraph

SpecStore == StoreInit /\ [][StoreNext]_vars

SheetInit == SheetIdle /\ CanonIdle /\ MergeIdle /\ TravIdle /\ StoreIdle

SheetNext == AppendScoresRow

SpecSheet == SheetInit /\ [][SheetNext]_vars

(***************************************************************************)
(* Claims about the merger (SpecMerge)                                     *)
(***************************************************************************)
NodeKey(r) == _canon_id(_node_id_source(r)).id

\* a father reference that is an ordinary ID: canonicalises to an ID outside the
\* curated range, on a record that does not label its father as the curated identity
OrdinaryFatherRef(r) ==
    LET f == _canon_id(r.father_id).id IN
    /\ IsInt(f)
    /\ ~_is_curated_negative_id(f)
    /\ ~_looks_like_kaprell_context(r)

\* a father reference that is the curated identity: canonicalises to KAPRELL_ID
CuratedFatherRef(r) == _canon_id(r.father_id).id = PyInt(KAPRELL_ID)

OrdinaryThenCurated(frag) ==
    /\ Len(frag) = 2
    /\ IsInt(NodeKey(frag[1])) /\ NodeKey(frag[1]) = NodeKey(frag[2])
    /\ OrdinaryFatherRef(frag[1]) /\ CuratedFatherRef(frag[2])

CuratedThenOrdinary(frag) ==
    /\ Len(frag) = 2
    /\ IsInt(NodeKey(frag[1])) /\ NodeKey(frag[1]) = NodeKey(frag[2])
    /\ CuratedFatherRef(frag[1]) /\ OrdinaryFatherRef(frag[2])

C3_MergeIdempotent ==
    (mpc = "done" /\ Len(pedigrees) = 2 /\ pedigrees[1] = pedigrees[2])
        => graph = after_first

\* C3 witness: the fragment merged twice holds two records of one node whose known
\* father references differ, so the second pass offers a conflicting value again
C3_Witness ==
    /\ mpc = "done" /\ Len(pedigrees) = 2 /\ pedigrees[1] = pedigrees[2]
    /\ \E i, j \in 1..Len(pedigrees[1]) :
          /\ i < j
          /\ NodeKey(pedigrees[1][i]) = NodeKey(pedigrees[1][j])
          /\ IsInt(_canon_id(pedigrees[1][i].father_id).id)
          /\ IsInt(_canon_id(pedigrees[1][j].father_id).id)
          /\ _canon_id(pedigrees[1][i].father_id).id # _canon_id(pedigrees[1][j].father_id).id
    /\ graph = after_first

EnrichedFields ==
    { "father_id", "mother_id", "sex", "birth_year", "name", "registration_number",
      "external_id", "father_external_id", "mother_external_id" }

\* C4: monotonic enrichment: no merge step turns a known (non-missing) field of a
\* node into a missing one, and no node leaves the graph.
C4_MonotonicEnrichment ==
    [][ \A k \in DOMAIN graph : \A f \in EnrichedFields :
            ~_is_missing(graph[k][f])
                => (k \in DOMAIN graph' /\ ~_is_missing(graph'[k][f])) ]_vars

\* C4 witness: the record just merged carried an unknown-marker for a field the
\* node already knew, and the node still knows it
C4_Witness ==
    /\ mpc = "merging" /\ pi = 1 /\ ni > 1
    /\ IsInt(NodeKey(pedigrees[pi][ni - 1]))
    /\ IsStr(pedigrees[pi][ni - 1].sex) /\ _is_missing(pedigrees[pi][ni - 1].sex)
    /\ NodeKey(pedigrees[pi][ni - 1]).v \in DOMAIN graph
    /\ ~_is_missing(graph[NodeKey(pedigrees[pi][ni - 1]).v].sex)

\* C5: whenever a merge step changes a known father_id or mother_id, the new value
\* is a curated ID (negative, magnitude in the reserved curated range).
C5_OnlyCuratedReplacesKnownParent ==
    [][ \A k \in DOMAIN graph : \A f \in {"father_id", "mother_id"} :
            (~_is_missing(graph[k][f]) /\ k \in DOMAIN graph' /\ graph'[k][f] # graph[k][f])
                => _is_curated_negative_id(graph'[k][f]) ]_vars

(***************************************************************************)
(* Claims about the identity canonicaliser (SpecCanon)                     *)
(***************************************************************************)
\* a string that takes the synthetic path of _canon_id
TakesSyntheticPath(tok) ==
    /\ IsStr(tok)
    /\ Len(Strip(tok.v)) > 0
    /\ ~IsDigit(Strip(tok.v))
    /\ Upper(Strip(tok.v)) # KAPRELL_REGNO

\* C6: the synthetic ID of every non-empty, non-digit, non-curated token is a
\* negative integer outside the curated range.
C6_SyntheticOutsideCuratedRange ==
    /\ (resA.done /\ TakesSyntheticPath(tokA))
          => (IsInt(resA.val.id) /\ resA.val.id.v < 0 /\ ~_is_curated_negative_id(resA.val.id))
    /\ (resB.done /\ TakesSyntheticPath(tokB))
          => (IsInt(resB.val.id) /\ resB.val.id.v < 0 /\ ~_is_curated_negative_id(resB.val.id))

\* two spellings of one registration code: equal once dash glyphs and the spacing
\* around the dash are normalised
SameCodeModuloDash(a, b) ==
    /\ IsStr(a) /\ IsStr(b)
    /\ Len(Strip(a.v)) > 0
    /\ _normalize_regno_text(a.v) = _normalize_regno_text(b.v)

\* C7: two spellings of the same registration code that differ only in dash glyph
\* and spacing around the dash canonicalise to the same integer.
C7_SpellingsConverge ==
    (resA.done /\ resB.done /\ SameCodeModuloDash(tokA, tokB))
        => resA.val.id = resB.val.id

(***************************************************************************)
(* Generations: the parents of a node are the in-graph ids under its       *)
(* parent keys; a node is within d generations of the root when a chain of *)
(* at most d parent steps leads from the root to it.                       *)
(***************************************************************************)
ParentsInGraph(g, n) ==
    { g[n][key].v : key \in { k \in ParentKeys : InGraph(g, g[n][k]) } }

RECURSIVE WithinFrom(_, _, _)
WithinFrom(g, S, k) ==
    IF k = 0 THEN S
    ELSE WithinFrom(g, S \cup UNION { ParentsInGraph(g, n) : n \in S }, k - 1)

Within(g, root, d) ==
    IF root \in DOMAIN g THEN WithinFrom(g, {root}, d) ELSE {}

AtGeneration(g, root, n, d) ==
    /\ n \in Within(g, root, d)
    /\ d > 0 => n \notin Within(g, root, d - 1)

Projected == tout.op = "project"

\* C8: every node of the projected subgraph is at most max_depth
\* generations (shortest parent-path length) from the root
C8_ProjectionWithinDepth ==
    Projected => DOMAIN tout.projected \subseteq Within(tgraph, troot, tdepth)

\* a projection that kept a node at generation max_depth >= 1 and left out
\* a node of the graph that lies further from the root
C8_Witness ==
    /\ Projected
    /\ tdepth >= 1
    /\ \E n \in DOMAIN tout.projected : AtGeneration(tgraph, troot, n, tdepth)
    /\ \E n \in Within(tgraph, troot, MaxNodes) : n \notin Within(tgraph, troot, tdepth)

\* C9: every node at exactly generation max_depth that has a parent in the
\* graph is in has_more
C9_FrontierComplete ==
    Projected =>
        \A n \in DOMAIN tgraph :
            (AtGeneration(tgraph, troot, n, tdepth) /\ ParentsInGraph(tgraph, n) # {})
                => n \in tout.has_more

\* the graph with every record's father and mother exchanged: walking it
\* father-first is walking the original mother-first
SwapParents(g) ==
    [n \in DOMAIN g |-> [g[n] EXCEPT !.father_id = g[n].mother_id,
                                     !.mother_id = g[n].father_id]]

\* C10: the projected node set and the frontier are the same father-first
\* and mother-first, and the node set is the set of (non-empty) nodes within
\* max_depth generations of the root, which is what a breadth-first walk
\* collects
C10_OrderIndependent ==
    Projected =>
        LET mother_first == project_ancestry(SwapParents(tgraph), troot, tdepth)
        IN  /\ DOMAIN tout.projected = DOMAIN mother_first.projected
            /\ tout.has_more = mother_first.has_more
            /\ DOMAIN tout.projected =
                  { n \in Within(tgraph, troot, tdepth) : tgraph[n].nonempty }

(***************************************************************************)
(* Parent-paths: a path of length k from the root is a word of k parent    *)
(* steps, each "father_id" or "mother_id", every one of which leads from a *)
(* record through its father or mother reference to a node of the graph.   *)
(***************************************************************************)
StepWords(d) == UNION { [1..k -> ParentKeys] : k \in 1..d }

\* the node a word of steps leads to from n, DanglingId when a step of it
\* leaves the graph
RECURSIVE EndOf(_, _, _)
EndOf(g, n, word) ==
    IF Len(word) = 0 THEN n
    ELSE LET v == _get_parent_id(g[n], Head(word))
         IN  IF InGraph(g, v) THEN EndOf(g, v.v, Tail(word)) ELSE DanglingId

PathsTo(g, root, a, d) == { word \in StepWords(d) : EndOf(g, root, word) = a }

Scored == tout.op = "score" /\ troot \in DOMAIN tgraph

\* C1: the count returned for an ancestor is the number of parent-paths of
\* length 1..max_depth from the root to it, and, without focus_ids, every
\* node with such a path is returned (the root's own entry under
\* include_root, which adds its appearance at generation 0, is left aside)
C1_CountIsNumberOfPaths ==
    Scored =>
        \A a \in DOMAIN tgraph :
            LET paths == Cardinality(PathsTo(tgraph, troot, a, tdepth))
            IN  /\ (a \in DOMAIN tout.scores /\ ~(tout.include_root /\ a = troot))
                      => tout.scores[a].count = paths
                /\ (~tout.focus_ids.given /\ paths > 0) => a \in DOMAIN tout.scores

\* an ancestor reached by exactly two paths, both of length 2 and one
\* through each parent of the root, returned with count 2 at max_depth 2
C1_Witness ==
    /\ Scored
    /\ tdepth = 2
    /\ \E a \in (DOMAIN tout.scores) \cap (DOMAIN tgraph) :
          /\ a # troot
          /\ PathsTo(tgraph, troot, a, 2) =
                { <<"father_id", "father_id">>, <<"mother_id", "mother_id">> }
             \/ PathsTo(tgraph, troot, a, 2) =
                { <<"father_id", "mother_id">>, <<"mother_id", "father_id">> }
             \/ PathsTo(tgraph, troot, a, 2) =
                { <<"father_id", "father_id">>, <<"mother_id", "father_id">> }
             \/ PathsTo(tgraph, troot, a, 2) =
                { <<"father_id", "mother_id">>, <<"mother_id", "mother_id">> }
          /\ EndOf(tgraph, troot, <<"father_id">>) # EndOf(tgraph, troot, <<"mother_id">>)
          /\ tout.scores[a].count = 2

UniqueSummarised == tout.op = "unique_summary"

\* C11: with the same depth cap, the unique summary's count of a generation
\* is at most the appearance summary's count of that generation
C11_UniqueAtMostAppearances ==
    (UniqueSummarised /\ IsInt(tout.max_depth)) =>
        LET appearances ==
              merged_generation_appearance_summary(tgraph, troot, tdepth).appearances_per_gen
        IN  \A gen \in DOMAIN tout.gen_counts :
                /\ gen \in DOMAIN appearances
                /\ tout.gen_counts[gen] <= appearances[gen]

\* a capped summary over three generations in which some generation has
\* fewer unique nodes than appearances
C11_Witness ==
    /\ UniqueSummarised /\ IsInt(tout.max_depth)
    /\ DOMAIN tout.gen_counts = 0..2
    /\ \E gen \in DOMAIN tout.gen_counts :
          tout.gen_counts[gen] <
             merged_generation_appearance_summary(tgraph, troot, tdepth).appearances_per_gen[gen]

RootAbsent == tpc = "done" /\ troot \notin DOMAIN tgraph

\* C12: with a root_id that is no key of the graph, the scorer returns an
\* empty mapping (with or without focus_ids), the projector an empty
\* subgraph and an empty has_more, the appearance summary two empty
\* mappings, and the unique summary zero totals and no generation counts
C12_AbsentRootGivesEmptyResults ==
    RootAbsent =>
        /\ tout.op = "score" => DOMAIN tout.scores = {}
        /\ tout.op = "project" => (DOMAIN tout.projected = {} /\ tout.has_more = {})
        /\ tout.op = "appearance_summary" =>
              (DOMAIN tout.appearances_per_gen = {} /\ DOMAIN tout.unique_per_gen = {})
        /\ tout.op = "unique_summary" =>
              /\ tout.summary = [total_nodes |-> 0, max_generation |-> 0,
                                 open_nodes |-> 0, closed_nodes |-> 0]
              /\ DOMAIN tout.gen_counts = {}

\* the scorer run with focus_ids on a graph of several nodes, for a root_id
\* the graph does not have
C12_Witness ==
    /\ RootAbsent
    /\ tout.op = "score"
    /\ tout.focus_ids.given /\ tout.focus_ids.ids \cap DOMAIN tgraph # {}
    /\ Cardinality(DOMAIN tgraph) >= 3
    /\ DOMAIN tout.scores = {}

\* C13: with the root in the graph and focus_ids given, the keys of the
\* result are exactly focus_ids; a focus id the unfiltered run returns has
\* the five values it has there, any other focus id has five zeros
C13_FocusIsAView ==
    (Scored /\ tout.focus_ids.given) =>
        LET unfiltered ==
              ancestor_influence_scores(tgraph, troot, tdepth, tout.include_root, NoFocus)
        IN  /\ DOMAIN tout.scores = tout.focus_ids.ids
            /\ \A hid \in tout.focus_ids.ids :
                  tout.scores[hid] = IF hid \in DOMAIN unfiltered THEN unfiltered[hid]
                                     ELSE ZeroScore

\* a focused run in which one focus id was reached, another was not, and a
\* reached node outside focus_ids was left out
C13_Witness ==
    /\ Scored /\ tout.focus_ids.given
    /\ \E hid \in tout.focus_ids.ids : tout.scores[hid].count >= 2
    /\ \E hid \in tout.focus_ids.ids : tout.scores[hid] = ZeroScore
    /\ \E a \in DOMAIN tgraph :
          /\ a \notin tout.focus_ids.ids
          /\ PathsTo(tgraph, troot, a, tdepth) # {}

\* C14: the merge never aborts: whatever the cached lists hold, it does not
\* raise
C14_MergeNeverAborts == mpc # "raised"

\* C15: every traversal returns; none is left by an exception
C15_NoTraversalRaises == tpc # "raised"

\* C16: a parent cycle is a dead end: the root, met again through a cycle,
\* is not counted as its own ancestor (its count is zero unless include_root
\* put it there)
C16_RootNotItsOwnAncestor ==
    (Scored /\ ~tout.include_root /\ troot \in DOMAIN tout.scores)
        => tout.scores[troot].count = 0

CountIn(scores, a) == IF a \in DOMAIN scores THEN scores[a].count ELSE 0

\* what the scorer returns from a parent of the root, one generation less
\* deep, with the same options
ScoresFromParent(key) ==
    ancestor_influence_scores(tgraph, _get_parent_id(tgraph[troot], key).v, tdepth - 1,
                              tout.include_root, tout.focus_ids)

\* C17: for a root with a parent p in the graph and max_depth d + 1 >= 2,
\* the count of every ancestor is at least its count scored from p at
\* max_depth d
C17_ChildCountAtLeastParentCount ==
    (Scored /\ tdepth >= 2) =>
        \A key \in ParentKeys :
            InGraph(tgraph, _get_parent_id(tgraph[troot], key)) =>
                \A a \in DOMAIN ScoresFromParent(key) :
                    CountIn(tout.scores, a) >= ScoresFromParent(key)[a].count

\* a root whose father is in the graph, and an ancestor that the father's
\* run counts once and the root's run counts more often
C17_Witness ==
    /\ Scored /\ tdepth >= 2 /\ ~tout.focus_ids.given
    /\ InGraph(tgraph, _get_parent_id(tgraph[troot], "father_id"))
    /\ \E a \in DOMAIN ScoresFromParent("father_id") :
          /\ ScoresFromParent("father_id")[a].count = 1
          /\ CountIn(tout.scores, a) > 1

\* the nodes the unique summary can reach: within the cap when there is one,
\* within any distance otherwise
Reached ==
    Within(tgraph, troot, IF IsInt(tout.max_depth) THEN tdepth ELSE Cardinality(DOMAIN tgraph))

PresentParents(n) == Cardinality({ key \in ParentKeys : InGraph(tgraph, tgraph[n][key]) })

RECURSIVE SumOver(_, _)
SumOver(f, S) ==
    IF S = {} THEN 0
    ELSE LET x == CHOOSE y \in S : TRUE IN f[x] + SumOver(f, S \ {x})

\* C18: the unique summary puts every reached node in exactly one class:
\* closed_nodes counts those with no parent in the graph, open_nodes those
\* with exactly one, the rest have both; the three add up to total_nodes,
\* and total_nodes is the sum of the per-generation counts
C18_ClassesPartitionReached ==
    UniqueSummarised =>
        /\ tout.summary.closed_nodes = Cardinality({ n \in Reached : PresentParents(n) = 0 })
        /\ tout.summary.open_nodes = Cardinality({ n \in Reached : PresentParents(n) = 1 })
        /\ tout.summary.closed_nodes + tout.summary.open_nodes
              + Cardinality({ n \in Reached : PresentParents(n) = 2 })
           = tout.summary.total_nodes
        /\ tout.summary.total_nodes = SumOver(tout.gen_counts, DOMAIN tout.gen_counts)

\* a summary whose reached nodes include one of each class
C18_Witness ==
    /\ UniqueSummarised
    /\ troot \in DOMAIN tgraph
    /\ \A k \in 0..2 : \E n \in Reached : PresentParents(n) = k
    /\ tout.summary.total_nodes >= 3

\* a snapshot that exists with another schema version, or older than the
\* newest fragment
Incompatible(file, current) ==
    /\ file.exists
    /\ file.schema_version # PyInt(SchemaVersion) \/ Stale(file, current)

\* C19: loading a snapshot with an unsupported schema version, or a stale
\* one, gives the caller an outcome that differs from the outcome of
\* loading with no snapshot file
C19_LoadFailureDistinctFromMissing ==
    (loaded.api \in LoadApis /\ Incompatible(loaded.file, loaded.current))
        => loaded.result # LoadBy(loaded.api, Missing, loaded.current)

\* C20: a call of project_ancestry, merged_generation_summary,
\* merged_generation_appearance_summary or ancestor_influence_scores leaves
\* the input graph with the same keys and the same field values
C20_TraversalsLeaveGraphUnchanged ==
    [][(tpc = "build" /\ tpc' = "done") => tgraph' = tgraph]_vars

\* a finished projection that took some nodes of a larger graph into its
\* result
C20_Witness ==
    /\ tpc = "done" /\ Projected
    /\ Cardinality(DOMAIN tout.projected) >= 2
    /\ DOMAIN tout.projected # DOMAIN tgraph
    /\ \A n \in DOMAIN tout.projected : tout.projected[n] = tgraph[n]

EntryIn(scores, a) == IF a \in DOMAIN scores THEN scores[a] ELSE ZeroScore

\* the run of the same call with include_root = false
WithoutRoot ==
    ancestor_influence_scores(tgraph, troot, tdepth, FALSE, tout.focus_ids)

MetBeforeBound ==
    DOMAIN ancestor_influence_scores(tgraph, troot, tdepth - 1, FALSE, NoFocus)

\* C23: the linear score is zero at the depth bound: an ancestor whose
\* every occurrence is at generation max_depth has max_depth * score_lin = 0
C23_LinearScoreZeroAtBound ==
    (Scored /\ ~tout.include_root /\ ~tout.focus_ids.given
       /\ troot \in DOMAIN tgraph /\ tdepth >= 1) =>
        \A a \in (DOMAIN tout.scores) \ MetBeforeBound : tout.scores[a].score_lin = 0

AllDecimal(s) == Len(s) > 0 /\ \A i \in 1..Len(s) : s[i] \in { Digits[j] : j \in 1..Len(Digits) }

\* C24: _canon_id is a total case analysis: an int comes back unchanged
\* with no external token; a string of decimal digits gives its value with
\* no external token; T-275 in any case, stripped, gives -275 with the
\* stripped string; any other non-empty string gives a negative int with the
\* stripped string; everything else gives (None, None)
C24_CanonIsTotalCaseAnalysis ==
    resA.done =>
        IF IsInt(tokA) THEN resA.val = CanonResult(tokA, PyNone)
        ELSE IF IsStr(tokA) /\ Len(Strip(tokA.v)) > 0
        THEN IF AllDecimal(Strip(tokA.v))
             THEN resA.val = CanonResult(PyInt(IntOfDigits(Strip(tokA.v))), PyNone)
             ELSE IF Upper(Strip(tokA.v)) = KAPRELL_REGNO
             THEN resA.val = CanonResult(PyInt(-275), PyStr(Strip(tokA.v)))
             ELSE /\ IsInt(resA.val.id) /\ resA.val.id.v < 0
                  /\ resA.val.ext = PyStr(Strip(tokA.v))
        ELSE resA.val = CanonResult(PyNone, PyNone)

\* the records of the first fragment that the loop has gone past
MergedSoFar ==
    { i \in 1..Len(pedigrees[1]) : (pi > 1 \/ i < ni) /\ IsDict(pedigrees[1][i]) }

\* C26: a record whose horse_id is absent or does not canonicalize, and
\* whose registration_number is a non-empty string, is in the graph under
\* the canonical ID of its registration code
C26_PlacedUnderRegistrationCode ==
    pedigrees # << >> =>
        \A i \in MergedSoFar :
            LET r == pedigrees[1][i] IN
            (/\ IsNone(_canon_id(r.horse_id).id)
             /\ IsStr(r.registration_number)
             /\ Len(Strip(r.registration_number.v)) > 0)
                => _canon_id(PyStr(Strip(r.registration_number.v))).id.v \in DOMAIN graph

\* the record the loop has just merged labels its mother with the curated
\* registration code
MotherLabelledCurated(r) ==
    /\ IsStr(r.mother_registration_number)
    /\ Upper(Strip(r.mother_registration_number.v)) = KAPRELL_REGNO

\* C27: a record that labels its mother by registration code as the curated
\* identity puts its mother_id on the node, also over a different mother_id
\* the node already has
C27_MotherLabelOverwrites ==
    (mpc = "merging" /\ pi <= Len(pedigrees) /\ ni >= 2 /\ IsDict(pedigrees[pi][ni - 1])) =>
        LET r == pedigrees[pi][ni - 1] IN
        (/\ MotherLabelledCurated(r)
         /\ IsInt(_canon_id(r.mother_id).id)
         /\ IsInt(_canon_id(_node_id_source(r)).id))
            => graph[_canon_id(_node_id_source(r)).id.v].mother_id = _canon_id(r.mother_id).id

\* C28: the projection includes every node it visits whatever its
\* attributes: the root when it is a key of the graph, and every node with no
\* attributes within max_depth generations of the root
C28_ProjectionKeepsEmptyRecords ==
    (Projected /\ troot \in DOMAIN tgraph) =>
        /\ troot \in DOMAIN tout.projected
        /\ \A n \in Within(tgraph, troot, tdepth) :
              ~tgraph[n].nonempty => n \in DOMAIN tout.projected

\* every parent reference of the graph is under father_id / mother_id
UsesParentKeysOnly ==
    \A n \in DOMAIN tgraph : IsNone(tgraph[n].father) /\ IsNone(tgraph[n].mother)

\* the sum of count over all ancestors, scored to max_depth d
TotalCount(d) ==
    LET scores == ancestor_influence_scores(tgraph, troot, d, FALSE, NoFocus)
    IN  SumOver([a \in DOMAIN scores |-> scores[a].count], DOMAIN scores)

\* the sum of appearances_per_gen[g] over g >= 1, summarised to max_depth d
TotalAppearances(d) ==
    LET appearances == merged_generation_appearance_summary(tgraph, troot, d).appearances_per_gen
    IN  SumOver(appearances, (DOMAIN appearances) \ {0})

LastGeneration(d) ==
    MaxOf(DOMAIN merged_generation_appearance_summary(tgraph, troot, d).appearances_per_gen)

\* C29: on a graph that uses the father_id / mother_id keys, the scorer's
\* counts add up to the appearance summary's appearances of generations 1
\* and later, at max_depth and at every smaller depth, and the last
\* generation of the summary is the last one that adds to the scorer's counts
C29_ScorerAgreesWithAppearances ==
    (Scored /\ ~tout.include_root /\ ~tout.focus_ids.given
       /\ troot \in DOMAIN tgraph /\ UsesParentKeysOnly) =>
        /\ SumOver([a \in DOMAIN tout.scores |-> tout.scores[a].count], DOMAIN tout.scores)
              = TotalAppearances(tdepth)
        /\ \A d \in 0..tdepth : TotalCount(d) = TotalAppearances(d)
        /\ \A d \in 1..tdepth :
              (TotalCount(d) > TotalCount(d - 1)) <=> (d <= LastGeneration(tdepth))

\* a run two generations deep that counts some ancestor twice
C29_Witness ==
    /\ Scored /\ ~tout.include_root /\ ~tout.focus_ids.given
    /\ troot \in DOMAIN tgraph /\ UsesParentKeysOnly
    /\ tdepth >= 2 /\ LastGeneration(tdepth) = 2
    /\ \E a \in DOMAIN tout.scores : tout.scores[a].count >= 2
    /\ TotalAppearances(tdepth) >= 4

Built == loaded.api = "build_merged_pedigree_graph"

\* the snapshot file as a reader finds it: the graph under its int keys
ReadBack(file) == Deserialized(file.graph.items)

\* what every build does on either path: with the merge, the graph is the
\* merge of all fragments from an empty graph and the snapshot it leaves
\* reads back as the returned graph; without it, the graph is the snapshot,
\* which stays as it was
BuildPaths ==
    /\ loaded.result.merged =>
          /\ loaded.result.returned = MergedFromFragments(loaded.current)
          /\ loaded.result.saved.exists /\ loaded.result.saved.graph.object
          /\ ReadBack(loaded.result.saved) = loaded.result.returned
          /\ loaded.result.saved.schema_version = PyInt(SchemaVersion)
    /\ ~loaded.result.merged =>
          /\ loaded.file.exists /\ loaded.file.graph.object
          /\ loaded.result.returned = ReadBack(loaded.file)
          /\ loaded.result.saved = loaded.file

Spelled(name) == IF name \in {Name_Star, Name_star_marked} THEN "star" ELSE "comet"

\* a row has the stable key of the last call: (HorseId, BirthYear) when the
\* call gave a HorseId, else (normalized name, BirthYear)
HasKeyOfCall(row) ==
    /\ row.BirthYear = (IF IsNone(call.birth_year) THEN PyStr(<< >>) ELSE call.birth_year)
    /\ IF IsNone(call.horse_id)
       THEN Spelled(row.Name.v) = Spelled(call.horse_name)
       ELSE row.HorseId = call.horse_id

KeyRows(ws) == { r \in 1..Len(ws) : HasKeyOfCall(ws[r]) }

\* C21: append_scores_row is an upsert: after the call exactly one row has
\* the call's key and it holds the call's values; when rows had the key
\* before, the row count has not grown; when none had, it has grown by one
C21_AppendIsUpsert ==
    call.n >= 1 =>
        /\ Cardinality(KeyRows(sheet)) = 1
        /\ \A r \in KeyRows(sheet) :
              /\ sheet[r].Scores = call.n
              /\ sheet[r].Name = PyStr(call.horse_name)
              /\ sheet[r].HorseId = (IF IsNone(call.horse_id) THEN PyStr(<< >>) ELSE call.horse_id)
        /\ KeyRows(call.before) # {} => Len(sheet) <= Len(call.before)
        /\ KeyRows(call.before) = {} => Len(sheet) = Len(call.before) + 1

\* a call whose key two rows had, in different spellings: one row is left
C21_Witness ==
    /\ call.n >= 1
    /\ Cardinality(KeyRows(call.before)) = 2
    /\ \E r, q \in KeyRows(call.before) : call.before[r].Name # call.before[q].Name
    /\ Len(sheet) = Len(call.before) - 1

\* C30: a call writes or deletes only rows of its own horse: a call without
\* HorseId leaves every row that stores a HorseId as it was, and a call with
\* a HorseId leaves every row that stores another HorseId as it was
C30_OtherHorsesRowsKept ==
    call.n >= 1 =>
        \A r \in 1..Len(call.before) :
            (/\ IsInt(call.before[r].HorseId)
             /\ IsNone(call.horse_id) \/ call.before[r].HorseId # call.horse_id)
                => \E q \in 1..Len(sheet) : sheet[q] = call.before[r]

====
